---- MODULE Spec2Model ----
(***************************************************************************)
(* Model of the autonomous control core of Nexus:                          *)
(*   - the event bus            src/soul/subconscious.py (NexusSubconscious)*)
(*   - the drive engine         src/soul/impulse.py      (ImpulseEngine)    *)
(*   - the plan tracker         src/models/goal.py       (GoalTracker)      *)
(*   - the heartbeat scheduler  src/autonomous_loop.py   (NexusHeartbeat)   *)
(* Each subsystem has its own specifications (SpecBus, SpecBusConc,        *)
(* SpecSub, SpecConcSub; SpecDrive, SpecImpulse; SpecPlan, SpecLoop;        *)
(* SpecTick, SpecWorker); the variables of the other subsystems stay       *)
(* unchanged in them, except that a tick of the scheduler reads and writes  *)
(* the bus and the drives.                                                  *)
(***************************************************************************)
EXTENDS Integers, Sequences, FiniteSets, TLC

VARIABLES
    \* ---- event bus (NexusSubconscious.__init__, subconscious.py:42-55)
    event_history,   \* self.event_history: list of events, oldest first
    world_state,     \* self.world_state: event type -> last payload
    event_queue,     \* self.event_queue: the heap list of the PriorityQueue
    subscribers,     \* self.subscribers: channel -> list of callbacks
    received,        \* per callback, the events it was called with
    \* ---- bus: observation of the calls made so far
    published,       \* every event a publish call created, in creation order
    busOp,           \* the last completed bus call and its result
    \* ---- bus: concurrent producers and the draining scheduler
    ppc,             \* producer -> position inside publish
    pev,             \* producer -> the event its publish call is handling
    dpc,             \* position of the scheduler inside get_high_priority_events
    devents,         \* the local list `events` of the running drain
    pubReturned,     \* ids of the events whose publish call has returned its event
    mustReturn,      \* ids queued by finished publishes when the running drain started
    everReturned,    \* the ids returned by drain calls, in order of return
    \* ---- drive engine (ImpulseEngine.__init__, impulse.py:22-39)
    drives,          \* self.drives, in hundredths
    now,             \* wall clock, minutes
    last_action,     \* self.last_action, minutes
    last_interaction,\* self.last_interaction, minutes
    driveOp,         \* the last completed drive-engine call
    driveCalls,      \* number of drive-engine calls made so far
    \* ---- plan tracker (GoalTracker.__init__, goal.py:87-94)
    active_plan,     \* self.active_plan (NoPlan when None)
    completed_goals, \* self.completed_goals
    recent_tool_calls, \* self._recent_tool_calls
    consecutive_observe_count, \* self._consecutive_observe_count
    \* ---- tracker: observation of the calls made so far
    plansCreated,    \* number of create_plan calls; the next plan's goal
    trackerOp,       \* the last completed tracker call and its result
    callLog,         \* tool names recorded since the last create_plan / reset
    script,          \* progress of an in-order run of complete_step after create_plan
    \* ---- heartbeat scheduler (NexusHeartbeat.__init__, autonomous_loop.py:33-51)
    is_running,      \* self.is_running
    activities,      \* self.activities: the activity records, oldest first
    saved,           \* the "activities" list of the persisted document
    action_handlers, \* self.action_handlers: the registered action names
    subagents_started, \* whether self.subagents_started has been set
    agent_starts,    \* producer -> number of start() calls the scheduler made
    workers,         \* the worker threads start() created: position of each
    callers,         \* caller thread -> position inside start()
    \* ---- scheduler: observation
    ticks,           \* number of _do_heartbeat runs so far
    tickOp           \* the last _do_heartbeat run and what it did

busVars == <<event_history, world_state, event_queue, subscribers, received,
             published, busOp>>
concVars == <<ppc, pev, dpc, devents, pubReturned, mustReturn, everReturned>>
driveVars == <<drives, now, last_action, last_interaction, driveOp, driveCalls>>
trackerVars == <<active_plan, completed_goals, recent_tool_calls,
                 consecutive_observe_count, plansCreated, trackerOp, callLog, script>>
beatVars == <<is_running, activities, saved, action_handlers, subagents_started,
              agent_starts, workers, callers, ticks, tickOp>>
vars == <<busVars, concVars, driveVars, trackerVars, beatVars>>

None == "None"

(***************************************************************************)
(* Small helpers on sequences                                              *)
(***************************************************************************)
Min(a, b) == IF a < b THEN a ELSE b
Max(a, b) == IF a > b THEN a ELSE b

Range(s) == {s[i] : i \in 1..Len(s)}

\* the last k elements of s (all of s when k >= Len(s))
LastK(s, k) == SubSeq(s, Len(s) - Min(k, Len(s)) + 1, Len(s))

\* Python's s[start:] for any integer start: a negative start counts from the
\* end, and both are clamped to the list
PySliceFrom(s, start) ==
    LET n == Len(s)
        lo == IF start < 0 THEN Max(n + start, 0) ELSE Min(start, n)
    IN SubSeq(s, lo + 1, n)

\* Python's list.pop(0)
PopFirst(s) == SubSeq(s, 2, Len(s))

Count(s, x) == Cardinality({i \in 1..Len(s) : s[i] = x})

(***************************************************************************)
(* Bounds of the model                                                     *)
(***************************************************************************)
MaxEvents == 4        \* publish calls in a run of the sequential bus
MaxLimit == 3         \* largest limit passed to get_recent_history
HistoryCap == 2       \* the history cap (1000 in the code), scaled down
MaxConcEvents == 3    \* publish calls in a run of the concurrent bus
MaxSubs == 3          \* subscribe calls in a run of the bus with subscribers
MaxSubEvents == 2     \* publish calls in a run of the bus with subscribers
MaxTicks == 2         \* _do_heartbeat runs in a run of the scheduler
MaxWorkers == 2       \* worker threads created in a run of the scheduler
ActivityCap == 1      \* the cap of the activity log (100 in the code), scaled down
MaxTickEvents == 2    \* publish calls in a run of the ticking scheduler
MaxDriveCalls == 4    \* calls of the drive engine in a run
MaxPlans == 1         \* create_plan calls in a run
MaxGoals == 2         \* entries of completed_goals
MaxAttempts == 4      \* fail_step calls counted by the steps of one plan
MaxCalls == 11        \* record_tool_call calls since the last create_plan / reset

(***************************************************************************)
(* Event bus: data                                                         *)
(***************************************************************************)
\* EventPriority (subconscious.py:22-26)
LOW == 0
NORMAL == 1
HIGH == 2
CRITICAL == 3
EventPriority == {LOW, NORMAL, HIGH, CRITICAL}

\* the (channel, type) pairs the producers publish, e.g. system_agent.py:38-44,
\* vision_agent.py:80
EventKinds == { <<"system", "BATTERY_LOW">>, <<"vision", "ERROR_ON_SCREEN">> }

\* the kinds of event published to a ticking scheduler: one the tick reacts to
\* (autonomous_loop.py:211), one it only prints (218), one whose reaction reads
\* the social drive (247-250)
TickKinds == { <<"system", "BATTERY_LOW">>, <<"network", "INTERNET_LOST">>,
               <<"vision", "USER_SEEN">> }
EventTypes == {k[2] : k \in EventKinds \cup TickKinds}

\* NexusEvent.__init__: the payload is opaque, the model uses the event's number
NexusEvent(n, kind, priority) ==
    [id |-> n, channel |-> kind[1], type |-> kind[2], payload |-> n,
     priority |-> priority]

(***************************************************************************)
(* queue.PriorityQueue over heapq, as CPython runs it.  An entry is the    *)
(* tuple (-priority, event).  Tuples are compared item by item; two        *)
(* entries with equal first items are decided by event < event, and        *)
(* NexusEvent defines no ordering: that comparison raises TypeError.        *)
(***************************************************************************)
Entry(e) == <<0 - e.priority, e>>

CmpRaises(a, b) == a[1] = b[1] /\ a[2] # b[2]
EntryLt(a, b) == a[1] < b[1]

Swap(h, i, j) == [h EXCEPT ![i] = h[j], ![j] = h[i]]

\* heapq _siftdown(heap, startpos, pos), positions 0-based as in the library
RECURSIVE SiftDown(_, _, _)
SiftDown(h, startpos, pos) ==
    IF pos > startpos
    THEN LET parentpos == (pos - 1) \div 2
             newitem == h[pos + 1]
             parent == h[parentpos + 1]
         IN IF CmpRaises(newitem, parent)
            THEN [heap |-> h, raised |-> TRUE]
            ELSE IF EntryLt(newitem, parent)
                 THEN SiftDown(Swap(h, pos + 1, parentpos + 1), startpos, parentpos)
                 ELSE [heap |-> h, raised |-> FALSE]
    ELSE [heap |-> h, raised |-> FALSE]

\* heapq _siftup(heap, pos): move the smaller child up to a leaf, then sift down
RECURSIVE SiftUpFrom(_, _, _)
SiftUpFrom(h, startpos, pos) ==
    LET endpos == Len(h)
        limit == endpos \div 2
        childpos == 2 * pos + 1
    IN IF pos < limit
       THEN IF childpos + 1 < endpos /\ CmpRaises(h[childpos + 1], h[childpos + 2])
            THEN [heap |-> h, raised |-> TRUE]
            ELSE LET c == IF childpos + 1 < endpos
                               /\ ~EntryLt(h[childpos + 1], h[childpos + 2])
                          THEN childpos + 1 ELSE childpos
                 IN SiftUpFrom(Swap(h, c + 1, pos + 1), startpos, c)
       ELSE SiftDown(h, startpos, pos)

\* heapq.heappush: append, then sift down; on a raising comparison the entry
\* stays where the sift had brought it
HeapPush(h, item) ==
    LET h1 == Append(h, item)
    IN SiftDown(h1, 0, Len(h1) - 1)

\* heapq.heappop on a non-empty heap: the last entry replaces the root and is
\* sifted; when a comparison raises, the root already taken out is dropped
HeapPop(h) ==
    LET n == Len(h)
        lastelt == h[n]
        h1 == SubSeq(h, 1, n - 1)
    IN IF n = 1
       THEN [heap |-> h1, raised |-> FALSE, item |-> lastelt]
       ELSE LET r == SiftUpFrom([h1 EXCEPT ![1] = lastelt], 0, 0)
            IN [heap |-> r.heap, raised |-> r.raised, item |-> h[1]]

(***************************************************************************)
(* Event bus: the steps of publish (subconscious.py:57-89)                 *)
(***************************************************************************)
\* step 1: append to the history, drop the oldest beyond the cap
HistoryAppend(hist, e) ==
    LET h1 == Append(hist, e)
    IN IF Len(h1) > HistoryCap THEN PopFirst(h1) ELSE h1

\* step 2: the snapshot table (the "last_updated" time stamp is left out)
WorldStateUpdate(ws, e) == [ws EXCEPT ![e.type] = e.payload]

\* step 3: _dispatch: the callbacks of the event's channel, then those of 'all';
\* a raising callback is swallowed, so the only effect is what each callback saw
Callbacks(subs, ch) == IF ch \in DOMAIN subs THEN subs[ch] ELSE <<>>

\* the callbacks registered with subscribe (e.g. verify_subagents.py:22); one
\* of them raises an Exception every time it is called
CallbackNames == {"listener", "raising_listener"}
Raising == {"raising_listener"}

\* a loop that one raising callback ends: the try around the loop, not in it
RECURSIVE Deliver_StopsAtRaise(_, _, _)
Deliver_StopsAtRaise(rec, cbs, e) ==
    IF cbs = <<>> THEN rec
    ELSE LET called == [rec EXCEPT ![Head(cbs)] = Append(@, e.id)]
         IN IF Head(cbs) \in Raising THEN called
            ELSE Deliver_StopsAtRaise(called, Tail(cbs), e)

\* for cb in callbacks: try: cb(event) except Exception: ... (lines 101-105,
\* 109-113): the callback is called; whether it returns or raises, the loop
\* goes on with the next one
RECURSIVE Deliver(_, _, _)
Deliver(rec, cbs, e) ==
    IF cbs = <<>> THEN rec
    ELSE LET called == [rec EXCEPT ![Head(cbs)] = Append(@, e.id)]
         IN Deliver(called, Tail(cbs), e)

Dispatch(rec, subs, e) ==
    Deliver(Deliver(rec, Callbacks(subs, e.channel), e), Callbacks(subs, "all"), e)

\* step 4: only HIGH and CRITICAL events are queued
Enqueue(q, e) ==
    IF e.priority >= HIGH
    THEN HeapPush(q, Entry(e))
    ELSE [heap |-> q, raised |-> FALSE]

(***************************************************************************)
(* get_high_priority_events (subconscious.py:115-127), run without          *)
(* interleaving: get_nowait until the queue is empty; a TypeError of the    *)
(* heap escapes the call and the events collected so far are lost with it   *)
(***************************************************************************)
RECURSIVE DrainLoop(_, _)
DrainLoop(q, events) ==
    IF q = <<>>
    THEN [heap |-> q, raised |-> FALSE, events |-> events]
    ELSE LET r == HeapPop(q)
         IN IF r.raised
            THEN [heap |-> r.heap, raised |-> TRUE, events |-> <<>>]
            ELSE DrainLoop(r.heap, Append(events, r.item[2]))

\* get_recent_history (subconscious.py:129-131): self.event_history[-limit:]
RecentHistory(hist, limit) == PySliceFrom(hist, 0 - limit)

(***************************************************************************)
(* Event bus: sequential calls (one caller at a time)                      *)
(***************************************************************************)
\* the record of a completed call: whether it raised, what it returned, its
\* argument, and the queued events when it began (recorded for a drain)
Events(q) == [i \in 1..Len(q) |-> q[i][2]]

BusOp(op, raised, result, arg, before) ==
    [op |-> op, raised |-> raised, result |-> result, arg |-> arg,
     before |-> before]

InitBus ==
    /\ event_history = <<>>
    /\ world_state = [t \in EventTypes |-> None]
    /\ event_queue = <<>>
    /\ subscribers = <<>>
    /\ received = [cb \in CallbackNames |-> <<>>]
    /\ published = <<>>
    /\ busOp = BusOp("init", FALSE, <<>>, 0, <<>>)

\* the producer threads (one per agent, e.g. system_agent.py, vision_agent.py)
Producers == {"system_agent", "vision_agent"}
NoEvent == NexusEvent(0, <<"system", "BATTERY_LOW">>, LOW)

InitConc ==
    /\ ppc = [p \in Producers |-> "idle"]
    /\ pev = [p \in Producers |-> NoEvent]
    /\ dpc = "idle"
    /\ devents = <<>>
    /\ pubReturned = {}
    /\ mustReturn = {}
    /\ everReturned = <<>>

Publish(kind, priority) ==
    /\ Len(published) < MaxEvents
    /\ LET event == NexusEvent(Len(published) + 1, kind, priority)
           q == Enqueue(event_queue, event)
       IN /\ event_history' = HistoryAppend(event_history, event)
          /\ world_state' = WorldStateUpdate(world_state, event)
          /\ received' = Dispatch(received, subscribers, event)
          /\ event_queue' = q.heap
          /\ published' = Append(published, event)
          /\ busOp' = BusOp("publish", q.raised, <<event>>, 0, <<>>)
    /\ UNCHANGED subscribers
    /\ UNCHANGED <<concVars, driveVars, trackerVars, beatVars>>

GetHighPriorityEvents ==
    /\ LET r == DrainLoop(event_queue, <<>>)
       IN /\ event_queue' = r.heap
          /\ busOp' = BusOp("drain", r.raised, r.events, 0, Events(event_queue))
    /\ UNCHANGED <<event_history, world_state, subscribers, received, published>>
    /\ UNCHANGED <<concVars, driveVars, trackerVars, beatVars>>

GetRecentHistory(limit) ==
    /\ busOp' = BusOp("history", FALSE, RecentHistory(event_history, limit), limit, <<>>)
    /\ UNCHANGED <<event_history, world_state, event_queue, subscribers, received,
                   published>>
    /\ UNCHANGED <<concVars, driveVars, trackerVars, beatVars>>

\* subscribe (subconscious.py:91-95)
SubChannels == {"system", "all"}
Subscribed(subs) == Callbacks(subs, "system") \o Callbacks(subs, "vision")
                       \o Callbacks(subs, "all")

Subscribe(channel, cb) ==
    /\ Len(Subscribed(subscribers)) < MaxSubs
    /\ subscribers' = [c \in DOMAIN subscribers \cup {channel} |->
                          IF c = channel
                          THEN Append(Callbacks(subscribers, channel), cb)
                          ELSE subscribers[c]]
    /\ busOp' = BusOp("subscribe", FALSE, <<>>, 0, <<>>)
    /\ UNCHANGED <<event_history, world_state, event_queue, received, published>>
    /\ UNCHANGED <<concVars, driveVars, trackerVars, beatVars>>

\* the bus with subscribers: callbacks are registered on a channel and on the
\* wildcard, events are published below and above the queueing priority
SubPriorities == {NORMAL, HIGH}

NextSub ==
    \/ \E ch \in SubChannels, cb \in CallbackNames : Subscribe(ch, cb)
    \/ \E k \in EventKinds, p \in SubPriorities :
          Len(published) < MaxSubEvents /\ Publish(k, p)

NextBus ==
    \/ \E k \in EventKinds, p \in EventPriority : Publish(k, p)
    \/ GetHighPriorityEvents
    \/ \E limit \in 0..MaxLimit : GetRecentHistory(limit)

(***************************************************************************)
(* Event bus: producer threads publishing while the scheduler drains.      *)
(* A publish call is four steps, one per lock or queue operation           *)
(* (history_lock, state_lock, _dispatch, event_queue.put); a drain is the  *)
(* loop of empty() and get_nowait(), each atomic under the queue's mutex.  *)
(***************************************************************************)
\* publish, lines 62-69: create the event and append it to the history
PubHistory(p, kind, priority) ==
    /\ ppc[p] = "idle"
    /\ Len(published) < MaxConcEvents
    /\ LET event == NexusEvent(Len(published) + 1, kind, priority)
       IN /\ event_history' = HistoryAppend(event_history, event)
          /\ published' = Append(published, event)
          /\ pev' = [pev EXCEPT ![p] = event]
    /\ ppc' = [ppc EXCEPT ![p] = "state"]
    /\ UNCHANGED <<world_state, event_queue, subscribers, received, busOp>>
    /\ UNCHANGED <<dpc, devents, pubReturned, mustReturn, everReturned>>
    /\ UNCHANGED <<driveVars, trackerVars, beatVars>>

\* publish, lines 73-75: the snapshot table
PubState(p) ==
    /\ ppc[p] = "state"
    /\ world_state' = WorldStateUpdate(world_state, pev[p])
    /\ ppc' = [ppc EXCEPT ![p] = "dispatch"]
    /\ UNCHANGED <<event_history, event_queue, subscribers, received, published, busOp>>
    /\ UNCHANGED <<pev, dpc, devents, pubReturned, mustReturn, everReturned>>
    /\ UNCHANGED <<driveVars, trackerVars, beatVars>>

\* publish, line 79: the subscribers
PubDispatch(p) ==
    /\ ppc[p] = "dispatch"
    /\ received' = Dispatch(received, subscribers, pev[p])
    /\ ppc' = [ppc EXCEPT ![p] = "enqueue"]
    /\ UNCHANGED <<event_history, world_state, event_queue, subscribers, published, busOp>>
    /\ UNCHANGED <<pev, dpc, devents, pubReturned, mustReturn, everReturned>>
    /\ UNCHANGED <<driveVars, trackerVars, beatVars>>

\* publish, lines 82-89: queue the event when HIGH or CRITICAL, return it
\* unless the put raised
PubEnqueue(p) ==
    /\ ppc[p] = "enqueue"
    /\ LET q == Enqueue(event_queue, pev[p])
       IN /\ event_queue' = q.heap
          /\ pubReturned' = IF q.raised THEN pubReturned
                            ELSE pubReturned \cup {pev[p].id}
    /\ ppc' = [ppc EXCEPT ![p] = "idle"]
    /\ UNCHANGED <<event_history, world_state, subscribers, received, published, busOp>>
    /\ UNCHANGED <<pev, dpc, devents, mustReturn, everReturned>>
    /\ UNCHANGED <<driveVars, trackerVars, beatVars>>

\* the HIGH and CRITICAL events whose publish has returned and which no drain
\* has returned yet
Outstanding ==
    {e.id : e \in {x \in Range(published) : x.priority >= HIGH
                                             /\ x.id \in pubReturned}}
        \ Range(everReturned)

\* get_high_priority_events, line 120: events = []
DrainStart ==
    /\ dpc \in {"idle", "returned", "raised"}
    /\ dpc' = "check"
    /\ devents' = <<>>
    /\ mustReturn' = Outstanding
    /\ UNCHANGED <<busVars, ppc, pev, pubReturned, everReturned>>
    /\ UNCHANGED <<driveVars, trackerVars, beatVars>>

\* line 121: while not self.event_queue.empty(); line 127: return events
DrainCheck ==
    /\ dpc = "check"
    /\ IF event_queue = <<>>
       THEN /\ dpc' = "returned"
            /\ everReturned' = everReturned \o [i \in 1..Len(devents) |-> devents[i].id]
       ELSE /\ dpc' = "get"
            /\ UNCHANGED everReturned
    /\ UNCHANGED <<busVars, ppc, pev, devents, pubReturned, mustReturn>>
    /\ UNCHANGED <<driveVars, trackerVars, beatVars>>

\* lines 122-126: get_nowait; queue.Empty ends the loop, any other error
\* leaves the call
DrainGet ==
    /\ dpc = "get"
    /\ IF event_queue = <<>>
       THEN /\ dpc' = "returned"
            /\ everReturned' = everReturned \o [i \in 1..Len(devents) |-> devents[i].id]
            /\ UNCHANGED <<event_queue, devents>>
       ELSE LET r == HeapPop(event_queue)
            IN /\ event_queue' = r.heap
               /\ dpc' = IF r.raised THEN "raised" ELSE "check"
               /\ devents' = IF r.raised THEN <<>> ELSE Append(devents, r.item[2])
               /\ UNCHANGED everReturned
    /\ UNCHANGED <<event_history, world_state, subscribers, received, published, busOp>>
    /\ UNCHANGED <<ppc, pev, pubReturned, mustReturn>>
    /\ UNCHANGED <<driveVars, trackerVars, beatVars>>

NextBusConc ==
    \/ \E p \in Producers, k \in EventKinds, pr \in EventPriority : PubHistory(p, k, pr)
    \/ \E p \in Producers : PubState(p)
    \/ \E p \in Producers : PubDispatch(p)
    \/ \E p \in Producers : PubEnqueue(p)
    \/ DrainStart
    \/ DrainCheck
    \/ DrainGet

\* producer threads publishing concurrently to a callback registered on their
\* channel or on the wildcard; NORMAL events, which are not queued
NextConcSub ==
    \/ \E ch \in SubChannels : Subscribe(ch, "listener")
    \/ \E p \in Producers, k \in EventKinds : PubHistory(p, k, NORMAL)
    \/ \E p \in Producers : PubState(p)
    \/ \E p \in Producers : PubDispatch(p)
    \/ \E p \in Producers : PubEnqueue(p)

(***************************************************************************)
(* Claims about the event bus                                              *)
(***************************************************************************)
\* the events of a set in descending priority, equal priorities in publish
\* (id) order
RECURSIVE PriorityOrder(_)
PriorityOrder(S) ==
    IF S = {} THEN <<>>
    ELSE LET first == CHOOSE e \in S : \A x \in S :
                          \/ e.priority > x.priority
                          \/ e.priority = x.priority /\ e.id <= x.id
         IN <<first>> \o PriorityOrder(S \ {first})

\* C1: with a single publisher, no publish call raises, and a drain returns
\* the queued events in descending priority, equal priorities in publish order
\* (publishing A, B, C as HIGH and draining once gives [A, B, C]).
C1_DrainInPriorityOrder ==
    /\ busOp.op = "publish" => ~busOp.raised
    /\ busOp.op = "drain" =>
          /\ ~busOp.raised
          /\ busOp.result = PriorityOrder(Range(busOp.before))

\* C2: the history holds exactly the min(n, cap) most recently published events
\* in publish order, and get_recent_history(limit) returns the last
\* min(limit, length) of them, leaving the history as it was.
C2_HistoryBounded ==
    /\ Len(event_history) <= HistoryCap
    /\ event_history = LastK(published, HistoryCap)
    /\ busOp.op = "history" => busOp.result = LastK(event_history, busOp.arg)

\* the part of C2 about the history itself (it holds: see C2's divergence)
HistoryIsTailOfPublished ==
    /\ Len(event_history) <= HistoryCap
    /\ event_history = LastK(published, HistoryCap)

\* C3: with concurrent producers, every HIGH or CRITICAL event is returned by
\* exactly one drain: never twice, and no later than the first drain that
\* starts after its publish has returned; no LOW or NORMAL event is returned.
C3_DrainedExactlyOnce ==
    /\ \A i, j \in 1..Len(everReturned) : everReturned[i] = everReturned[j] => i = j
    /\ \A i \in 1..Len(everReturned) : published[everReturned[i]].priority >= HIGH
    /\ dpc \in {"returned", "raised"} => mustReturn \subseteq Range(everReturned)

\* C13: when a callback raises during publish, every other callback on the
\* event's channel and on "all" is still called with the event, the error does
\* not escape publish, and the event is in the history, in the snapshot table
\* and, if HIGH or CRITICAL, in the priority queue.
C13_RaisingCallbackIsolated ==
    (busOp.op = "publish") =>
       LET e == busOp.result[1]
           cbs == Callbacks(subscribers, e.channel) \o Callbacks(subscribers, "all")
       IN (\E i \in 1..Len(cbs) : cbs[i] \in Raising) =>
             /\ \A cb \in CallbackNames :
                   Count(received[cb], e.id) = Count(cbs, cb)
             /\ event_history[Len(event_history)] = e
             /\ world_state[e.type] = e.payload
             /\ e.priority >= HIGH =>
                   \E i \in 1..Len(event_queue) : event_queue[i] = Entry(e)
             \* publish raises only where the queue compares two events
             /\ busOp.raised =>
                   \E i \in 1..Len(event_queue) :
                      /\ event_queue[i][2] # e
                      /\ event_queue[i][1] = 0 - e.priority

\* a HIGH event published to a raising callback followed by another on its
\* channel, and to one on the wildcard channel
C13_Witness ==
    /\ busOp.op = "publish"
    /\ ~busOp.raised
    /\ busOp.result[1].channel = "system"
    /\ busOp.result[1].priority = HIGH
    /\ Callbacks(subscribers, "system") = <<"raising_listener", "listener">>
    /\ Callbacks(subscribers, "all") = <<"listener">>
    /\ Count(received["listener"], busOp.result[1].id) = 2

\* C25: with producer threads publishing concurrently on one channel, every
\* subscriber is called with the events of that channel in the order in which
\* they were appended to the history (the order of their numbers)
C25_DeliveredInPublishOrder ==
    \A cb \in CallbackNames : \A i, j \in 1..Len(received[cb]) :
        (i < j /\ published[received[cb][i]].channel
                    = published[received[cb][j]].channel)
            => received[cb][i] <= received[cb][j]

\* the place in the history of the most recent event of a type
LatestOfType(hist, T) ==
    CHOOSE i \in 1..Len(hist) :
        /\ hist[i].type = T
        /\ \A j \in 1..Len(hist) : hist[j].type = T => j <= i

\* C30: with producer threads publishing concurrently, whenever no publish
\* call is in progress the snapshot table holds, for every event type in the
\* history, the payload of the most recent event of that type
C30_SnapshotIsLatest ==
    (\A p \in Producers : ppc[p] = "idle") =>
        \A T \in EventTypes :
            (\E i \in 1..Len(event_history) : event_history[i].type = T) =>
                world_state[T] = event_history[LatestOfType(event_history, T)].payload

(***************************************************************************)
(* Drive engine (src/soul/impulse.py).  A drive value is kept in           *)
(* hundredths (0.05 is 5, 0.1 is 10), a time in minutes.                    *)
(***************************************************************************)
DriveNames == {"boredom", "social_need", "curiosity", "energy", "affection"}

\* the names satisfy_drive is called with: the drives and a name that is none
SatisfyNames == DriveNames \cup {"hunger"}

\* the amounts satisfy_drive is called with: 0.0, 0.3 and 1.0
\* (autonomous_loop.py:289, 363)
Amounts == {0, 30, 100}

\* the instants at which the wall clock is read
Instants == {0, 12, 20, 250, 1445, 1460}

MinutesPerDay == 1440

\* timedelta.seconds of a non-negative difference: the part below one day
TimedeltaSeconds(later, earlier) == (later - earlier) % MinutesPerDay

\* check_impulses returning None (impulse.py:99, 116)
NoImpulse == [type |-> None, reason |-> None]

\* the default drives (impulse.py:27-33)
DefaultDrives ==
    [d \in DriveNames |->
        CASE d = "boredom" -> 0
          [] d = "social_need" -> 50
          [] d = "curiosity" -> 30
          [] d = "energy" -> 100
          [] d = "affection" -> 50]

InitDrive ==
    /\ drives = DefaultDrives
    /\ now = 0
    /\ last_action = 0
    /\ last_interaction = 0
    /\ driveOp = [op |-> "init", impulse |-> NoImpulse]
    /\ driveCalls = 0

\* update_drives (impulse.py:65-88) on drive values dr at time t
UpdatedDrives(dr, t, lastAct, lastInter) ==
    LET minutes_since_active == TimedeltaSeconds(t, lastAct)
        minutes_since_interaction == TimedeltaSeconds(t, lastInter)
        d1 == IF minutes_since_active > 15
              THEN [dr EXCEPT !["boredom"] = Min(100, @ + 5)] ELSE dr
        d2 == IF minutes_since_interaction > 4 * 60
              THEN [d1 EXCEPT !["social_need"] = Min(100, @ + 2)] ELSE d1
        d3 == IF minutes_since_active > 10
              THEN [d2 EXCEPT !["energy"] = Min(100, @ + 5)] ELSE d2
    IN d3

\* the impulses check_impulses can return on drive values dr (impulse.py:97-116);
\* random.random() makes it a choice between two
Impulses(dr) ==
    IF dr["energy"] < 20 THEN {NoImpulse}
    ELSE IF dr["boredom"] > 80
         THEN { [type |-> "message_user", reason |-> "boredom"],
                [type |-> "browse_web", reason |-> "curiosity"] }
         ELSE IF dr["social_need"] > 70
              THEN { [type |-> "check_moltbook", reason |-> "social_need"],
                     [type |-> "message_user", reason |-> "affection"] }
              ELSE {NoImpulse}

\* the wall clock moves on
AdvanceClock(t) ==
    /\ t \in Instants
    /\ t > now
    /\ now' = t
    /\ UNCHANGED <<drives, last_action, last_interaction, driveOp, driveCalls>>
    /\ UNCHANGED <<busVars, concVars, trackerVars, beatVars>>

UpdateDrives ==
    /\ driveCalls < MaxDriveCalls
    /\ driveCalls' = driveCalls + 1
    /\ drives' = UpdatedDrives(drives, now, last_action, last_interaction)
    /\ driveOp' = [op |-> "update_drives", impulse |-> NoImpulse]
    /\ UNCHANGED <<now, last_action, last_interaction>>
    /\ UNCHANGED <<busVars, concVars, trackerVars, beatVars>>

CheckImpulses ==
    /\ driveCalls < MaxDriveCalls
    /\ driveCalls' = driveCalls + 1
    /\ drives' = UpdatedDrives(drives, now, last_action, last_interaction)
    /\ \E i \in Impulses(drives') :
          driveOp' = [op |-> "check_impulses", impulse |-> i]
    /\ UNCHANGED <<now, last_action, last_interaction>>
    /\ UNCHANGED <<busVars, concVars, trackerVars, beatVars>>

\* satisfy_drive (impulse.py:118-128)
SatisfiedDrives(dr, drive, amount) ==
    LET d1 == [dr EXCEPT ![drive] = Max(0, @ - amount)]
    IN [d1 EXCEPT !["energy"] = @ - 10]

SatisfyDrive(drive, amount) ==
    /\ driveCalls < MaxDriveCalls
    /\ driveCalls' = driveCalls + 1
    /\ IF drive \in DOMAIN drives
       THEN /\ drives' = SatisfiedDrives(drives, drive, amount)
            /\ last_action' = now
            /\ last_interaction' = IF drive \in {"social_need", "affection"}
                                   THEN now ELSE last_interaction
       ELSE UNCHANGED <<drives, last_action, last_interaction>>
    /\ driveOp' = [op |-> "satisfy_drive", impulse |-> NoImpulse]
    /\ UNCHANGED now
    /\ UNCHANGED <<busVars, concVars, trackerVars, beatVars>>

\* the drives as _load_state reads them from the state file (impulse.py:40-51):
\* values on both sides of the thresholds of check_impulses
LoadedEnergy == {15, 20, 60}
LoadedBoredom == {78, 80, 85}
LoadedSocialNeed == {69, 70, 75}

InitLoaded ==
    /\ drives \in { [DefaultDrives EXCEPT !["energy"] = en, !["boredom"] = b,
                                          !["social_need"] = sn] :
                       en \in LoadedEnergy, b \in LoadedBoredom,
                       sn \in LoadedSocialNeed }
    /\ now = 0
    /\ last_action = 0
    /\ last_interaction = 0
    /\ driveOp = [op |-> "init", impulse |-> NoImpulse]
    /\ driveCalls = 0

\* the drive engine evaluated at different times on loaded drive values
NextImpulse ==
    \/ \E t \in Instants : AdvanceClock(t)
    \/ CheckImpulses

NextDrive ==
    \/ \E t \in Instants : AdvanceClock(t)
    \/ UpdateDrives
    \/ CheckImpulses
    \/ \E d \in SatisfyNames, a \in Amounts : SatisfyDrive(d, a)

(***************************************************************************)
(* Claims about the drive engine                                           *)
(***************************************************************************)
\* C4: starting from the default drives, after every update_drives,
\* check_impulses and satisfy_drive call every drive value is within [0, 1].
C4_DrivesWithinUnitInterval ==
    \A d \in DriveNames : 0 <= drives[d] /\ drives[d] <= 100

\* C17: check_impulses returns no impulse when energy is below 0.2; with energy
\* at or above 0.2 and boredom above 0.8 the impulse is boredom-driven, also
\* when social_need is above 0.7; a social-need-driven impulse is returned only
\* when boredom is at most 0.8 and social_need is above 0.7; otherwise none.
C17_ImpulsePriority ==
    [][CheckImpulses =>
          LET i == driveOp'.impulse
          IN /\ drives["energy"] < 20 => i = NoImpulse
             /\ (drives["energy"] >= 20 /\ drives["boredom"] > 80) =>
                   (i # NoImpulse /\ i.reason \in {"boredom", "curiosity"})
             /\ (i # NoImpulse /\ i.reason \in {"social_need", "affection"}) =>
                   (drives["boredom"] <= 80 /\ drives["social_need"] > 70)
             /\ (drives["energy"] >= 20 /\ drives["boredom"] <= 80
                    /\ drives["social_need"] <= 70) => i = NoImpulse]_vars

\* the order of the thresholds on the values check_impulses tests, which are
\* the drive values its own update_drives has left
ImpulseMatchesUpdatedDrives ==
    driveOp.op = "check_impulses" =>
       LET i == driveOp.impulse
       IN /\ drives["energy"] < 20 => i = NoImpulse
          /\ (drives["energy"] >= 20 /\ drives["boredom"] > 80) =>
                (i # NoImpulse /\ i.reason \in {"boredom", "curiosity"})
          /\ (drives["energy"] >= 20 /\ drives["boredom"] <= 80
                 /\ drives["social_need"] > 70) =>
                (i # NoImpulse /\ i.reason \in {"social_need", "affection"})
          /\ (drives["energy"] >= 20 /\ drives["boredom"] <= 80
                 /\ drives["social_need"] <= 70) => i = NoImpulse

\* C23: check_impulses is a pure function of the current drive values: a call
\* leaves every drive value and both timestamps unchanged, and two calls on
\* the same drive values return the same impulse
C23_CheckImpulsesPure ==
    [][CheckImpulses =>
          /\ drives' = drives
          /\ last_action' = last_action
          /\ last_interaction' = last_interaction
          /\ (driveOp.op = "check_impulses" /\ drives' = drives) =>
                driveOp'.impulse = driveOp.impulse]_vars

\* the second half of C23 alone: two calls in a row that tested the same drive
\* values returned the same impulse
SameDrivesSameImpulse ==
    [][(CheckImpulses /\ driveOp.op = "check_impulses" /\ drives' = drives) =>
          driveOp'.impulse = driveOp.impulse]_vars

\* C26: for every elapsed duration, one day or longer included, update_drives
\* raises boredom by 0.05 (capped at 1.0) when more than 15 minutes have
\* passed since the last action, energy by 0.05 when more than 10, and
\* social_need by 0.02 when more than 4 hours have passed since the last
\* interaction; it leaves curiosity and affection unchanged
C26_DrivesGrowWithIdleTime ==
    [][UpdateDrives =>
          /\ drives'["boredom"] = IF now - last_action > 15
                                  THEN Min(100, drives["boredom"] + 5)
                                  ELSE drives["boredom"]
          /\ drives'["energy"] = IF now - last_action > 10
                                 THEN Min(100, drives["energy"] + 5)
                                 ELSE drives["energy"]
          /\ drives'["social_need"] = IF now - last_interaction > 4 * 60
                                      THEN Min(100, drives["social_need"] + 2)
                                      ELSE drives["social_need"]
          /\ drives'["curiosity"] = drives["curiosity"]
          /\ drives'["affection"] = drives["affection"]]_vars

(***************************************************************************)
(* Plan tracker (src/models/goal.py, GoalTracker)                          *)
(***************************************************************************)
\* GoalState and StepStatus (goal.py:23-39)
IDLE == "idle"
EXECUTING == "executing"
COMPLETE == "complete"
PENDING == "pending"
IN_PROGRESS == "in_progress"
DONE == "done"
FAILED == "failed"

\* self.active_plan = None
NoPlan == [goal |-> 0, state |-> IDLE, steps |-> <<>>, current_step |-> 0]

\* the tool names the agent loop records (AIassistant.py:1184): the observation
\* tool and two others
Tools == {"see_screen", "shell", "click_at"}

\* the numbers of steps create_plan is called with, and the step numbers
\* complete_step and fail_step are called with (0 and 4 are in no plan)
PlanSizes == {0, 1, 2, 3}
StepNumbers == {0, 1, 2, 3, 4}

\* self._max_tool_history (goal.py:93)
MaxToolHistory == 10

\* GoalStep(number=i, ...) with its defaults (goal.py:42-49)
GoalStep(i) == [number |-> i, status |-> PENDING, outcome |-> None, attempts |-> 0]

\* the last tracker call; for record_tool_call, the kind of warning it returned
TrackerOp(op, result) == [op |-> op, result |-> result]

InitTracker ==
    /\ active_plan = NoPlan
    /\ completed_goals = <<>>
    /\ recent_tool_calls = <<>>
    /\ consecutive_observe_count = 0
    /\ plansCreated = 0
    /\ trackerOp = TrackerOp("init", None)
    /\ callLog = <<>>
    /\ script = 0 - 1

\* create_plan (goal.py:98-116): k steps numbered from 1, the plan EXECUTING
\* with current_step 1, the first step (if any) IN_PROGRESS
CreatedPlan(goal, k) ==
    LET goal_steps == [i \in 1..k |-> GoalStep(i)]
    IN [goal |-> goal, state |-> EXECUTING, current_step |-> 1,
        steps |-> IF k >= 1
                  THEN [goal_steps EXCEPT ![1].status = IN_PROGRESS]
                  ELSE goal_steps]

\* a step lookup that falls back to the last step when the number is unknown
FindStep_OrLast(plan, step_number) ==
    LET steps == plan.steps
    IN IF \E i \in 1..Len(steps) : steps[i].number = step_number
       THEN CHOOSE i \in 1..Len(steps) :
               /\ steps[i].number = step_number
               /\ \A j \in 1..(i - 1) : steps[j].number # step_number
       ELSE Len(steps)

\* next(s for s in steps if s.number == step_number) (goal.py:131, 171): the
\* position of the first such step, 0 if none
FindStep(plan, step_number) ==
    LET steps == plan.steps
    IN IF \E i \in 1..Len(steps) : steps[i].number = step_number
       THEN CHOOSE i \in 1..Len(steps) :
               /\ steps[i].number = step_number
               /\ \A j \in 1..(i - 1) : steps[j].number # step_number
       ELSE 0

\* next(s for s in steps if s.status == PENDING) (goal.py:139-142): the
\* position of the first pending step, 0 if none
NextPending(steps) ==
    IF \E i \in 1..Len(steps) : steps[i].status = PENDING
    THEN CHOOSE i \in 1..Len(steps) :
            /\ steps[i].status = PENDING
            /\ \A j \in 1..(i - 1) : steps[j].status # PENDING
    ELSE 0

CountStatus(steps, status) ==
    Cardinality({i \in 1..Len(steps) : steps[i].status = status})

\* GoalCompletion (goal.py:153-159, 269-275)
GoalCompletion(plan, success) ==
    [goal |-> plan.goal, success |-> success,
     steps_completed |-> CountStatus(plan.steps, DONE),
     steps_total |-> Len(plan.steps)]

\* a complete_step that advances the steps but leaves current_step where it was
CompletedStep_KeepsCurrentStep(plan, i) ==
    LET steps1 == [plan.steps EXCEPT ![i].status = DONE, ![i].outcome = "outcome"]
        nxt == NextPending(steps1)
    IN IF nxt # 0
       THEN [plan EXCEPT !.steps = [steps1 EXCEPT ![nxt].status = IN_PROGRESS]]
       ELSE [plan EXCEPT !.steps = steps1, !.state = COMPLETE]

\* complete_step on step position i of the plan (goal.py:135-151): the plan after
CompletedStep(plan, i) ==
    LET steps1 == [plan.steps EXCEPT ![i].status = DONE, ![i].outcome = "outcome"]
        nxt == NextPending(steps1)
    IN IF nxt # 0
       THEN [plan EXCEPT !.steps = [steps1 EXCEPT ![nxt].status = IN_PROGRESS],
                         !.current_step = steps1[nxt].number]
       ELSE [plan EXCEPT !.steps = steps1, !.state = COMPLETE]

\* fail_step on step position i of the plan (goal.py:175-179): the plan after
FailedStep(plan, i) ==
    LET attempts == plan.steps[i].attempts + 1
    IN IF attempts >= 3
       THEN [plan EXCEPT !.steps[i].attempts = attempts,
                         !.steps[i].status = FAILED,
                         !.steps[i].outcome = "FAILED after attempts"]
       ELSE [plan EXCEPT !.steps[i].attempts = attempts]

\* record_tool_call, lines 190-192: the window of recent calls
RecordedCalls(calls, tool_name) ==
    LET c1 == Append(calls, tool_name)
    IN IF Len(c1) > MaxToolHistory THEN PopFirst(c1) ELSE c1

\* a consecutive-observe counter that another tool does not reset
ObserveCount_NoReset(count, tool_name) ==
    IF tool_name = "see_screen" THEN count + 1 ELSE count

\* record_tool_call, lines 195-208: the consecutive-observe counter
ObserveCount(count, tool_name) ==
    IF tool_name = "see_screen" THEN count + 1 ELSE 0

\* a dominance test over the whole window instead of its last 7 calls
DominantInLast7_WholeWindow(calls) ==
    /\ Len(calls) >= 7
    /\ \E t \in Range(calls) : Count(calls, t) >= 5

\* record_tool_call, lines 211-214: some tool has 5 or more of the last 7 calls
DominantInLast7(calls) ==
    /\ Len(calls) >= 7
    /\ LET last_7 == LastK(calls, 7)
       IN \E t \in Range(last_7) :
             /\ \A u \in Range(last_7) : Count(last_7, t) >= Count(last_7, u)
             /\ Count(last_7, t) >= 5

\* record_tool_call, the value returned (lines 197-223)
ToolCallWarning(calls, count, tool_name) ==
    IF tool_name = "see_screen" /\ count >= 2 THEN "observe_warning"
    ELSE IF DominantInLast7(calls) THEN "loop_warning"
    ELSE None

\* what complete_step returns (goal.py:128, 133, 147, 161), by kind of message
CompleteStepMessage(plan, step_number) ==
    IF plan = NoPlan THEN "no_plan"
    ELSE IF FindStep(plan, step_number) = 0 THEN "not_found"
    ELSE IF CompletedStep(plan, FindStep(plan, step_number)).state = COMPLETE
         THEN "all_done" ELSE "advanced"

\* the fail_step calls the steps of a plan have counted
RECURSIVE FailedCalls(_)
FailedCalls(steps) ==
    IF steps = <<>> THEN 0 ELSE steps[1].attempts + FailedCalls(Tail(steps))

\* what fail_step returns (goal.py:169, 173, 180, 182), by kind of message
FailStepMessage(plan, step_number) ==
    IF plan = NoPlan THEN "no_plan"
    ELSE IF FindStep(plan, step_number) = 0 THEN "not_found"
    ELSE IF plan.steps[FindStep(plan, step_number)].attempts + 1 >= 3
         THEN "FAILED" ELSE "retry"

CreatePlan(k) ==
    /\ plansCreated < MaxPlans
    /\ plansCreated' = plansCreated + 1
    /\ active_plan' = CreatedPlan(plansCreated + 1, k)
    /\ recent_tool_calls' = <<>>
    /\ consecutive_observe_count' = 0
    /\ trackerOp' = TrackerOp("create_plan", None)
    /\ callLog' = <<>>
    /\ script' = IF k >= 1 THEN 0 ELSE 0 - 1
    /\ UNCHANGED completed_goals
    /\ UNCHANGED <<busVars, concVars, driveVars, beatVars>>

CompleteStep(step_number) ==
    /\ LET msg == CompleteStepMessage(active_plan, step_number)
           i == FindStep(active_plan, step_number)
           after == CompletedStep(active_plan, i)
       IN IF msg \in {"no_plan", "not_found"}
          THEN UNCHANGED <<active_plan, completed_goals>>
          ELSE /\ active_plan' = after
               /\ IF msg = "all_done"
                  THEN /\ Len(completed_goals) < MaxGoals
                       /\ completed_goals' =
                             Append(completed_goals, GoalCompletion(after, TRUE))
                  ELSE UNCHANGED completed_goals
    /\ trackerOp' = TrackerOp("complete_step",
                              CompleteStepMessage(active_plan, step_number))
    /\ script' = IF script >= 0 /\ step_number = script + 1
                    /\ step_number <= Len(active_plan.steps)
                 THEN step_number ELSE 0 - 1
    /\ UNCHANGED <<recent_tool_calls, consecutive_observe_count, plansCreated, callLog>>
    /\ UNCHANGED <<busVars, concVars, driveVars, beatVars>>

FailStep(step_number) ==
    /\ LET msg == FailStepMessage(active_plan, step_number)
           i == FindStep(active_plan, step_number)
       IN IF msg \in {"no_plan", "not_found"}
          THEN UNCHANGED active_plan
          ELSE /\ FailedCalls(active_plan.steps) < MaxAttempts
               /\ active_plan' = FailedStep(active_plan, i)
    /\ trackerOp' = TrackerOp("fail_step", FailStepMessage(active_plan, step_number))
    /\ script' = 0 - 1
    /\ UNCHANGED <<completed_goals, recent_tool_calls, consecutive_observe_count,
                   plansCreated, callLog>>
    /\ UNCHANGED <<busVars, concVars, driveVars, beatVars>>

RecordToolCall(tool_name) ==
    /\ Len(callLog) < MaxCalls
    /\ recent_tool_calls' = RecordedCalls(recent_tool_calls, tool_name)
    /\ consecutive_observe_count' = ObserveCount(consecutive_observe_count, tool_name)
    /\ trackerOp' = TrackerOp("record_tool_call",
                              ToolCallWarning(recent_tool_calls',
                                              consecutive_observe_count', tool_name))
    /\ callLog' = Append(callLog, tool_name)
    /\ UNCHANGED <<active_plan, completed_goals, plansCreated, script>>
    /\ UNCHANGED <<busVars, concVars, driveVars, beatVars>>

\* reset (goal.py:265-279)
Reset ==
    /\ IF active_plan # NoPlan /\ active_plan.state = EXECUTING
       THEN /\ Len(completed_goals) < MaxGoals
            /\ completed_goals' = Append(completed_goals, GoalCompletion(active_plan, FALSE))
       ELSE UNCHANGED completed_goals
    /\ active_plan' = NoPlan
    /\ recent_tool_calls' = <<>>
    /\ consecutive_observe_count' = 0
    /\ trackerOp' = TrackerOp("reset", None)
    /\ callLog' = <<>>
    /\ script' = 0 - 1
    /\ UNCHANGED plansCreated
    /\ UNCHANGED <<busVars, concVars, driveVars, beatVars>>

\* the plan tracker; one observation is recorded between two create_plan / reset
\* calls, so that the loop detector has something to forget
NextPlan ==
    \/ \E k \in PlanSizes : CreatePlan(k)
    \/ \E n \in StepNumbers : CompleteStep(n)
    \/ \E n \in StepNumbers : FailStep(n)
    \/ callLog = <<>> /\ RecordToolCall("see_screen")
    \/ Reset

\* the loop detector: long runs of recorded calls of the observation tool and
\* of one other tool
LoopTools == {"see_screen", "shell"}

NextLoop ==
    \/ \E t \in LoopTools : RecordToolCall(t)
    \/ \E k \in PlanSizes : CreatePlan(k)
    \/ Reset

(***************************************************************************)
(* Claims about the plan tracker                                           *)
(***************************************************************************)
\* C5: whatever create_plan, complete_step(n), fail_step(n) and reset calls are
\* made, the active plan never has more than one step IN_PROGRESS.
C5_AtMostOneInProgress ==
    CountStatus(active_plan.steps, IN_PROGRESS) <= 1

\* C6: after create_plan with k >= 1 steps the plan is EXECUTING, step 1 is
\* IN_PROGRESS, the others PENDING, all with attempts 0, and the loop detector
\* is empty; completing steps 1, 2, ..., k in this order leaves, after call
\* i < k, step i DONE and step i+1 IN_PROGRESS with current_step = i+1, and
\* after call k the plan COMPLETE.
C6_InOrderCompletion ==
    LET k == Len(active_plan.steps)
        steps == active_plan.steps
    IN /\ script = 0 =>
            /\ active_plan.state = EXECUTING
            /\ steps[1].status = IN_PROGRESS
            /\ \A j \in 2..k : steps[j].status = PENDING
            /\ \A j \in 1..k : steps[j].attempts = 0
            /\ callLog = <<>> =>
                  recent_tool_calls = <<>> /\ consecutive_observe_count = 0
       /\ (script >= 1 /\ script < k) =>
            /\ steps[script].status = DONE
            /\ steps[script + 1].status = IN_PROGRESS
            /\ active_plan.current_step = script + 1
       /\ (script >= 1 /\ script = k) => active_plan.state = COMPLETE

\* a plan of three steps completed in order
C6_Witness ==
    /\ Len(active_plan.steps) = 3
    /\ script = 3
    /\ active_plan.state = COMPLETE

\* C7: attempts never exceeds 3: the first two fail_step calls on a step leave
\* its status as it was, the third sets it FAILED, a fourth or later call
\* still reports FAILED and leaves attempts at 3.
C7_RetryCeiling ==
    [][\A n \in StepNumbers :
          (FailStep(n) /\ FindStep(active_plan, n) # 0) =>
             LET i == FindStep(active_plan, n)
                 before == active_plan.steps[i]
                 after == active_plan'.steps[i]
             IN /\ after.attempts <= 3
                /\ before.attempts < 2 => after.status = before.status
                /\ before.attempts = 2 => after.status = FAILED
                /\ before.attempts >= 3 =>
                      /\ FailStepMessage(active_plan, n) = "FAILED"
                      /\ after.attempts = 3]_vars

\* C8: once a step is FAILED, no complete_step or fail_step call on the same
\* plan changes its status.
C8_FailedIsPermanent ==
    [][\A n \in StepNumbers :
          (CompleteStep(n) \/ FailStep(n)) =>
             \A i \in 1..Len(active_plan.steps) :
                active_plan.steps[i].status = FAILED =>
                   active_plan'.steps[i].status = FAILED]_vars

\* C11: create_plan with an empty step list is rejected, leaves the active
\* plan and the loop detector as they were, and so no plan with zero steps is
\* ever the active plan.
C11_EmptyPlanRejected ==
    [][/\ CreatePlan(0) =>
             UNCHANGED <<active_plan, recent_tool_calls, consecutive_observe_count>>
       /\ active_plan' # NoPlan => Len(active_plan'.steps) >= 1]_vars

\* C12: complete_step and fail_step with no active plan, or with a step number
\* that is not in the plan, return a message and leave the plan, the archive
\* and the loop detector as they were.
C12_UnknownStepLeavesState ==
    [][\A n \in StepNumbers :
          (/\ \/ active_plan = NoPlan
              \/ \A i \in 1..Len(active_plan.steps) : active_plan.steps[i].number # n
           /\ CompleteStep(n) \/ FailStep(n)) =>
             /\ trackerOp'.result \in {"no_plan", "not_found"}
             /\ UNCHANGED <<active_plan, completed_goals, recent_tool_calls,
                            consecutive_observe_count>>]_vars

\* fail_step with an unknown number on a plan that has failures and a
\* non-empty loop detector
C12_Witness ==
    /\ trackerOp = TrackerOp("fail_step", "not_found")
    /\ active_plan.state = EXECUTING
    /\ \E i \in 1..Len(active_plan.steps) : active_plan.steps[i].attempts >= 1
    /\ recent_tool_calls # <<>>

\* C27: whenever the active plan is COMPLETE every one of its steps is DONE,
\* and the GoalCompletion archived for it has steps_completed equal to
\* steps_total, whatever complete_step / fail_step calls came before
C27_CompleteMeansAllDone ==
    /\ active_plan.state = COMPLETE =>
          \A i \in 1..Len(active_plan.steps) : active_plan.steps[i].status = DONE
    /\ \A g \in 1..Len(completed_goals) :
          completed_goals[g].success =>
             completed_goals[g].steps_completed = completed_goals[g].steps_total

\* C28: whenever the active plan is EXECUTING exactly one of its steps is
\* IN_PROGRESS and current_step is the number of that step
C28_ExecutingHasCurrentStep ==
    active_plan.state = EXECUTING =>
        /\ CountStatus(active_plan.steps, IN_PROGRESS) = 1
        /\ \A i \in 1..Len(active_plan.steps) :
              active_plan.steps[i].status = IN_PROGRESS =>
                 active_plan.steps[i].number = active_plan.current_step

\* the last clause of C28 alone: a plan with a FAILED step and PENDING steps
\* left is not EXECUTING with no step IN_PROGRESS
NoStallAfterFailure ==
    (/\ active_plan.state = EXECUTING
     /\ CountStatus(active_plan.steps, FAILED) >= 1
     /\ CountStatus(active_plan.steps, PENDING) >= 1)
        => CountStatus(active_plan.steps, IN_PROGRESS) >= 1

\* C29: each plan created by create_plan adds at most one entry to
\* completed_goals, whatever complete_step, fail_step and reset calls follow
C29_ArchivedOnce ==
    \A i, j \in 1..Len(completed_goals) :
        completed_goals[i].goal = completed_goals[j].goal => i = j

(***************************************************************************)
(* Claims about the loop detector                                          *)
(***************************************************************************)
\* the number of calls of tool t at the end of the log
RECURSIVE TrailingRun(_, _)
TrailingRun(log, t) ==
    IF log = <<>> \/ log[Len(log)] # t THEN 0
    ELSE 1 + TrailingRun(SubSeq(log, 1, Len(log) - 1), t)

\* C9: record_tool_call("see_screen") returns the consecutive-observe warning
\* exactly when it is at least the second see_screen call since the last call
\* of another tool (or since create_plan / reset); a call of another tool sets
\* the counter to zero.
C9_ConsecutiveObserve ==
    /\ consecutive_observe_count = TrailingRun(callLog, "see_screen")
    /\ (trackerOp.op = "record_tool_call" /\ callLog[Len(callLog)] = "see_screen") =>
          (trackerOp.result = "observe_warning"
              <=> TrailingRun(callLog, "see_screen") >= 2)
    /\ (trackerOp.op = "record_tool_call" /\ callLog[Len(callLog)] # "see_screen") =>
          /\ consecutive_observe_count = 0
          /\ trackerOp.result # "observe_warning"

\* another tool, one see_screen without the warning, then the warning
C9_Witness ==
    /\ Len(callLog) >= 4
    /\ SubSeq(callLog, Len(callLog) - 3, Len(callLog))
          = <<"see_screen", "shell", "see_screen", "see_screen">>
    /\ trackerOp.result = "observe_warning"

\* C10: when at least 7 calls are recorded and one tool has 5 or more of the
\* last 7, the call returns a warning; when the current tool is not the
\* observation tool and fewer than 7 calls are recorded or no tool has more
\* than 4 of the last 7, it returns none.
C10_DominantTool ==
    trackerOp.op = "record_tool_call" =>
       LET last7 == LastK(callLog, 7)
           dominant == \E t \in Tools : Count(last7, t) >= 5
       IN /\ (Len(callLog) >= 7 /\ dominant) => trackerOp.result # None
          /\ (callLog[Len(callLog)] # "see_screen"
                 /\ (Len(callLog) < 7 \/ ~dominant)) => trackerOp.result = None

\* more calls than the detector keeps, the last one raising the loop warning
C10_Witness ==
    /\ Len(callLog) > MaxToolHistory
    /\ trackerOp.result = "loop_warning"
    /\ Count(LastK(callLog, 7), "shell") = 5

(***************************************************************************)
(* Heartbeat scheduler (src/autonomous_loop.py, NexusHeartbeat).  One run   *)
(* of _do_heartbeat is computed step by step on a record c: the drive       *)
(* engine's state (dr, la, li), the bus queue (q), the start-up of the      *)
(* producers (started, starts) and what the run has done so far: the        *)
(* externally visible actions (ext), the events drained and the number of   *)
(* them the reaction loop got through (drained, reacted), the housekeeping  *)
(* steps run and those whose error was caught (steps, caught), the impulse  *)
(* check_impulses returned and the one acted on (checked, impulse), and the *)
(* step at which an error escaped the run (raised).  What the collaborators *)
(* answer is chosen from the sets of an environment record env.             *)
(***************************************************************************)
Callers == {"main", "other"}

NoTick ==
    [op |-> "init", worker |-> 0, ext |-> <<>>, drained |-> <<>>, reacted |-> 0,
     task |-> FALSE, steps |-> <<>>, caught |-> {}, checked |-> NoImpulse,
     impulse |-> NoImpulse, raised |-> None]

InitBeat ==
    /\ is_running = FALSE
    /\ activities = <<>>
    /\ saved = <<>>
    /\ action_handlers = {}
    /\ subagents_started = FALSE
    /\ agent_starts = [p \in Producers |-> 0]
    /\ workers = <<>>
    /\ callers = [t \in Callers |-> "idle"]
    /\ ticks = 0
    /\ tickOp = NoTick

\* the record a run of _do_heartbeat starts from
TickStart ==
    [dr |-> drives, la |-> last_action, li |-> last_interaction, q |-> event_queue,
     started |-> subagents_started, starts |-> agent_starts,
     ext |-> <<>>, drained |-> <<>>, reacted |-> 0, task |-> FALSE, steps |-> <<>>,
     caught |-> {}, checked |-> NoImpulse, impulse |-> NoImpulse, raised |-> None]

\* an externally visible action: a registered handler called, a post, an upvote
External(kind, name) == [kind |-> kind, name |-> name]

\* self._dispatch_action(...): NexusHeartbeat defines no _dispatch_action, the
\* attribute lookup raises AttributeError where the call stands
DispatchAction(c, step) == [c EXCEPT !.raised = step]

\* step 0, lines 143-187: the producers are started once; the imports of lines
\* 145-163 can fail before any start(), the import and start of line 184-185
\* after the other producers have been started
StartSubagents(c, env) ==
    IF c.raised # None \/ c.started THEN {c}
    ELSE { IF o = "ok"
           THEN [c EXCEPT !.starts = [p \in Producers |-> @[p] + 1],
                          !.started = TRUE]
           ELSE IF o = "import_fails"
           THEN [c EXCEPT !.raised = "subagents"]
           ELSE [c EXCEPT !.starts = [p \in Producers |-> @[p] + 1],
                          !.raised = "subagents"]
           : o \in env.startup }

\* step 1, line 194: the queued events are taken from the bus
DrainEvents(c) ==
    IF c.raised # None THEN c
    ELSE LET r == DrainLoop(c.q, <<>>)
         IN IF r.raised THEN [c EXCEPT !.q = r.heap, !.raised = "drain"]
            ELSE [c EXCEPT !.q = r.heap, !.drained = r.events]

\* the event types whose branch calls _dispatch_action (lines 203-244)
ReactionTypes == {"ERROR_ON_SCREEN", "BATTERY_LOW", "VOICE_COMMAND", "DEVICE_CONNECTED"}

\* lines 196-260: the reaction to each drained event, in order
RECURSIVE ReactLoop(_, _)
ReactLoop(c, events) ==
    IF c.raised # None \/ events = <<>> THEN c
    ELSE LET e == Head(events)
         IN IF e.type \in ReactionTypes
            THEN DispatchAction(c, "reaction")
            ELSE IF e.type = "USER_SEEN"
            \* impulse.drives["social"]: KeyError unless the drives have the key
            THEN IF "social" \notin DOMAIN c.dr
                 THEN [c EXCEPT !.raised = "reaction"]
                 ELSE IF c.dr["social"] < 50
                      THEN DispatchAction(c, "reaction")
                      ELSE ReactLoop([c EXCEPT !.reacted = @ + 1], Tail(events))
            ELSE ReactLoop([c EXCEPT !.reacted = @ + 1], Tail(events))

\* step 2, lines 265-315: the deep-work gate; with a task the announcement of
\* line 274, outside the try of line 280, raises, so lines 280-313 never run
DeepWork(c, env) ==
    IF c.raised # None THEN {c}
    ELSE IF c.dr["boredom"] > 60 /\ c.dr["energy"] > 40
         THEN { IF task THEN DispatchAction([c EXCEPT !.task = TRUE], "deep_work")
                ELSE c : task \in env.task }
         ELSE {c}

\* the spontaneous impulse of lines 324-329
Spontaneous == [type |-> "message_user", reason |-> "Spontaneous Thought"]

\* step 3, lines 318-342: check_impulses (with its update_drives), the
\* spontaneous chance, and the handler of a message_user impulse
ImpulseStep(c, env) ==
    IF c.raised # None THEN {c}
    ELSE LET dr1 == UpdatedDrives(c.dr, now, c.la, c.li)
         IN UNION { UNION {
              LET active == IF i = NoImpulse /\ sp THEN Spontaneous ELSE i
                  c1 == [c EXCEPT !.dr = dr1, !.checked = i, !.impulse = active]
              IN IF active.type = "message_user" /\ "message_user" \in action_handlers
                 THEN { IF h = "raises"
                        THEN [c1 EXCEPT !.ext = Append(@, External("handler", "message_user")),
                                        !.raised = "handler"]
                        ELSE [c1 EXCEPT !.ext = Append(@, External("handler", "message_user")),
                                        !.dr = SatisfiedDrives(
                                                  SatisfiedDrives(dr1, "social_need", 40),
                                                  "boredom", 50),
                                        !.la = now, !.li = now]
                        : h \in env.handler }
                 ELSE {c1}
              : sp \in (IF i = NoImpulse THEN env.spontaneous ELSE {FALSE}) }
              : i \in Impulses(dr1) }

\* step 3 (second of the name), lines 345-354: memory consolidation, in a try
Reflection(c, env) ==
    IF c.raised # None THEN {c}
    ELSE { [c EXCEPT !.steps = Append(@, "reflection"),
                     !.caught = IF r = "raises" THEN @ \cup {"reflection"} ELSE @]
           : r \in env.reflection }

\* step 4, lines 357-404: social engagement, in a try
Social(c, env) ==
    IF c.raised # None THEN {c}
    ELSE { LET c1 == [c EXCEPT !.steps = Append(@, "social")]
               \* line 361-363: a check_moltbook impulse is satisfied here
               c2 == IF c.impulse.type = "check_moltbook"
                     THEN [c1 EXCEPT !.dr = SatisfiedDrives(c.dr, "social_need", 30),
                                     !.la = now, !.li = now]
                     ELSE c1
               post == External("post", "moltbook")
               upvote == External("upvote", "moltbook")
           IN CASE so = "off" -> c1
                [] so = "raises" -> [c1 EXCEPT !.caught = @ \cup {"social"}]
                [] so = "quiet" -> c2
                [] so = "posts" -> [c2 EXCEPT !.ext = Append(@, post)]
                [] so = "posts_upvotes" ->
                      [c2 EXCEPT !.ext = Append(Append(@, post), upvote)]
                [] so = "posts_raises" ->
                      [c2 EXCEPT !.ext = Append(@, post), !.caught = @ \cup {"social"}]
           : so \in env.social }

\* step 5, line 407: consciousness.restore_energy, outside any try
Restore(c, env) ==
    IF c.raised # None THEN {c}
    ELSE { IF r = "raises" THEN [c EXCEPT !.raised = "restore"]
           ELSE [c EXCEPT !.steps = Append(@, "restore")] : r \in env.restore }

\* step 6, lines 410-417: the activity record of the run
Record(c) ==
    IF c.raised # None THEN c ELSE [c EXCEPT !.steps = Append(@, "record")]

\* _do_heartbeat (lines 117-420): the runs the environment allows
Heartbeats(env) ==
    LET s0 == StartSubagents(TickStart, env)
        s1 == {ReactLoop(DrainEvents(c), DrainEvents(c).drained) : c \in s0}
        s2 == UNION {DeepWork(c, env) : c \in s1}
        s3 == UNION {ImpulseStep(c, env) : c \in s2}
        s4 == UNION {Reflection(c, env) : c \in s3}
        s5 == UNION {Social(c, env) : c \in s4}
        s6 == UNION {Restore(c, env) : c \in s5}
    IN {Record(c) : c \in s6}

\* what the collaborators of a tick can answer
Environment ==
    [startup |-> {"ok", "import_fails", "late_failure"},
     task |-> BOOLEAN, spontaneous |-> BOOLEAN, handler |-> {"returns", "raises"},
     reflection |-> {"returns", "raises"},
     social |-> {"off", "quiet", "posts", "posts_upvotes", "raises", "posts_raises"},
     restore |-> {"returns", "raises"}]

\* collaborators that have nothing to say and do not fail
QuietEnvironment ==
    [startup |-> {"ok"}, task |-> {FALSE}, spontaneous |-> {FALSE},
     handler |-> {"returns"}, reflection |-> {"returns", "raises"},
     social |-> {"off"}, restore |-> {"returns", "raises"}]

\* an activity record: its place in the order of appending and what it records
Activity(n, kind) == [n |-> n, kind |-> kind]

\* _save_log (lines 66-75): the document holds self.activities[-100:]
SavedLog(acts) == LastK(acts, ActivityCap)

\* register_action (lines 77-85); app.py:317 registers "message_user"
ActionNames == {"message_user"}

RegisterAction(name) ==
    /\ action_handlers' = action_handlers \cup {name}
    /\ UNCHANGED <<is_running, activities, saved, subagents_started, agent_starts,
                   workers, callers, ticks, tickOp>>
    /\ UNCHANGED <<busVars, concVars, driveVars, trackerVars>>

\* start, lines 89-91: the test of the running flag
StartCheck(t) ==
    /\ callers[t] = "idle"
    /\ IF is_running
       THEN UNCHANGED callers
       ELSE /\ Len(workers) < MaxWorkers
            /\ callers' = [callers EXCEPT ![t] = "start_checked"]
    /\ UNCHANGED <<is_running, activities, saved, action_handlers, subagents_started,
                   agent_starts, workers, ticks, tickOp>>
    /\ UNCHANGED <<busVars, concVars, driveVars, trackerVars>>

\* start, lines 93-95: the flag is set and the worker thread created and started
StartSpawn(t) ==
    /\ callers[t] = "start_checked"
    /\ is_running' = TRUE
    /\ workers' = Append(workers, "first_sleep")
    /\ callers' = [callers EXCEPT ![t] = "idle"]
    /\ UNCHANGED <<activities, saved, action_handlers, subagents_started,
                   agent_starts, ticks, tickOp>>
    /\ UNCHANGED <<busVars, concVars, driveVars, trackerVars>>

\* stop (lines 98-101)
Stop(t) ==
    /\ callers[t] = "idle"
    /\ is_running' = FALSE
    /\ UNCHANGED <<activities, saved, action_handlers, subagents_started,
                   agent_starts, workers, callers, ticks, tickOp>>
    /\ UNCHANGED <<busVars, concVars, driveVars, trackerVars>>

\* _heartbeat_loop, lines 106 and 115: a sleep of the worker ends
WorkerWake(w) ==
    /\ workers[w] \in {"first_sleep", "sleep"}
    /\ workers' = [workers EXCEPT ![w] = "check"]
    /\ UNCHANGED <<is_running, activities, saved, action_handlers, subagents_started,
                   agent_starts, callers, ticks, tickOp>>
    /\ UNCHANGED <<busVars, concVars, driveVars, trackerVars>>

\* the threads inside _do_heartbeat
InTick == {w \in 1..Len(workers) : workers[w] = "tick"}
Forcing == {t \in Callers : callers[t] = "forcing"}

\* a loop test that never looks at the flag
WhileRunning_Forever(running) == "tick"

\* line 108: while self.is_running
WhileRunning(running) == IF running THEN "tick" ELSE "exited"

\* the worker's test of line 108; a passed test begins a tick
WorkerCheck(w) ==
    /\ workers[w] = "check"
    /\ LET to == WhileRunning(is_running)
       IN /\ to = "tick" =>
                ticks + Cardinality(InTick) + Cardinality(Forcing) < MaxTicks
          /\ workers' = [workers EXCEPT ![w] = to]
    /\ UNCHANGED <<is_running, activities, saved, action_handlers, subagents_started,
                   agent_starts, callers, ticks, tickOp>>
    /\ UNCHANGED <<busVars, concVars, driveVars, trackerVars>>

\* a loop that an escaping error ends
AfterBeat_EndsOnError(c) == IF c.raised # None THEN "exited" ELSE "sleep"

\* where the worker stands after the try of lines 109-112
AfterBeat(c) == "sleep"

\* the activity list after a run: the record of line 416, or, for an error that
\* escaped the run in the loop, the one of line 112
Recorded(acts, c, inLoop) ==
    IF c.raised = None THEN Append(acts, Activity(Len(acts) + 1, "tick"))
    ELSE IF inLoop THEN Append(acts, Activity(Len(acts) + 1, "error"))
    ELSE acts

\* what a run of _do_heartbeat, by the worker (op "tick") or by a caller of
\* force_heartbeat (op "forced"), leaves
BeatEffects(c, op, w) ==
    /\ drives' = c.dr
    /\ last_action' = c.la
    /\ last_interaction' = c.li
    /\ event_queue' = c.q
    /\ subagents_started' = c.started
    /\ agent_starts' = c.starts
    /\ activities' = Recorded(activities, c, op = "tick")
    /\ saved' = IF activities' # activities THEN SavedLog(activities') ELSE saved
    /\ ticks' = ticks + 1
    /\ tickOp' = [op |-> op, worker |-> w, ext |-> c.ext, drained |-> c.drained,
                  reacted |-> c.reacted, task |-> c.task, steps |-> c.steps,
                  caught |-> c.caught,
                  checked |-> c.checked, impulse |-> c.impulse, raised |-> c.raised]
    /\ UNCHANGED <<event_history, world_state, subscribers, received, published, busOp>>
    /\ UNCHANGED <<now, driveOp, driveCalls, is_running, action_handlers>>
    /\ UNCHANGED <<concVars, trackerVars>>

\* lines 109-115: the worker runs _do_heartbeat, records an error that escapes
\* it, and goes to sleep
WorkerBeat(w, env) ==
    /\ workers[w] = "tick"
    /\ \E c \in Heartbeats(env) :
          /\ BeatEffects(c, "tick", w)
          /\ workers' = [workers EXCEPT ![w] = AfterBeat(c)]
    /\ UNCHANGED callers

\* force_heartbeat (lines 431-434): _do_heartbeat on the caller's thread
ForceBegin(t) ==
    /\ callers[t] = "idle"
    /\ ticks + Cardinality(InTick) + Cardinality(Forcing) < MaxTicks
    /\ callers' = [callers EXCEPT ![t] = "forcing"]
    /\ UNCHANGED <<is_running, activities, saved, action_handlers, subagents_started,
                   agent_starts, workers, ticks, tickOp>>
    /\ UNCHANGED <<busVars, concVars, driveVars, trackerVars>>

ForceEnd(t, env) ==
    /\ callers[t] = "forcing"
    /\ \E c \in Heartbeats(env) : BeatEffects(c, "forced", 0)
    /\ callers' = [callers EXCEPT ![t] = "idle"]
    /\ UNCHANGED workers

\* the drives a ticking scheduler finds: the defaults, or drives loaded from
\* the state file that are above the deep-work gate or the social threshold
TickDrives ==
    { DefaultDrives,
      [DefaultDrives EXCEPT !["boredom"] = 85],
      [DefaultDrives EXCEPT !["social_need"] = 75] }

InitTickDrives ==
    /\ drives \in TickDrives
    /\ now = 0
    /\ last_action = 0
    /\ last_interaction = 0
    /\ driveOp = [op |-> "init", impulse |-> NoImpulse]
    /\ driveCalls = 0

\* the events the producers publish to a ticking scheduler
TickEvents == { <<<<"system", "BATTERY_LOW">>, HIGH>>, <<<<"network", "INTERNET_LOST">>, HIGH>>,
                <<<<"vision", "USER_SEEN">>, CRITICAL>> }

\* one caller starting the scheduler, the worker ticking with whatever the
\* collaborators answer, producers publishing in between
NextTick ==
    \/ \E name \in ActionNames : RegisterAction(name)
    \/ \E ev \in TickEvents :
          Len(published) < MaxTickEvents /\ Publish(ev[1], ev[2])
    \/ StartCheck("main")
    \/ StartSpawn("main")
    \/ \E w \in 1..Len(workers) : WorkerWake(w)
    \/ \E w \in 1..Len(workers) : WorkerCheck(w)
    \/ \E w \in 1..Len(workers) : WorkerBeat(w, Environment)

\* several threads calling start, stop and force_heartbeat while the workers
\* tick with quiet collaborators
NextWorker ==
    \/ \E t \in Callers : StartCheck(t)
    \/ \E t \in Callers : StartSpawn(t)
    \/ \E t \in Callers : Stop(t)
    \/ \E t \in Callers : ForceBegin(t)
    \/ \E t \in Callers : ForceEnd(t, QuietEnvironment)
    \/ \E w \in 1..Len(workers) : WorkerWake(w)
    \/ \E w \in 1..Len(workers) : WorkerCheck(w)
    \/ \E w \in 1..Len(workers) : WorkerBeat(w, QuietEnvironment)

(***************************************************************************)
(* Claims about the heartbeat scheduler                                    *)
(***************************************************************************)
\* a run of _do_heartbeat has just been recorded in tickOp
Ran == tickOp.op \in {"tick", "forced"}

\* C14: in every single run of _do_heartbeat the scheduler performs at most
\* one externally visible action (a registered handler called, a post, an
\* upvote), whatever was drained and whichever of the deep-work gate, a drive
\* impulse or the spontaneous fallback fired
C14_AtMostOneExternalAction ==
    Ran => Len(tickOp.ext) <= 1

\* the workers that have not left the heartbeat loop
InLoop == {w \in 1..Len(workers) : workers[w] # "exited"}

\* C15: for any interleaving of start() and stop() at most one worker thread
\* is in the heartbeat loop, and two workers are never inside a tick together
C15_SingleWorker ==
    /\ Cardinality(InLoop) <= 1
    /\ Cardinality(InTick) <= 1

\* C16: while the running flag stays cleared (stop() has returned, no start()
\* has set it again) no worker begins a tick; a worker inside a tick is left
\* alone until the run ends and then sleeps; a worker that takes its test of
\* the flag leaves the loop, and stays out
C16_StopBeginsNoTick ==
    [][ (~is_running /\ ~is_running') =>
          /\ Len(workers') = Len(workers)
          /\ \A w \in 1..Len(workers) :
                /\ workers[w] # "tick" => workers'[w] # "tick"
                /\ workers[w] = "tick" =>
                      \/ workers'[w] = "tick"
                      \/ /\ workers'[w] = "sleep"
                         /\ tickOp'.op = "tick" /\ tickOp'.worker = w
                         /\ ticks' = ticks + 1
                /\ workers[w] = "check" => workers'[w] \in {"check", "exited"}
                /\ workers[w] = "exited" => workers'[w] = "exited" ]_vars

\* stop() came while a worker was in the loop; the worker has run a tick to
\* its end and has left the loop at its test of the flag
C16_Witness ==
    /\ ~is_running
    /\ \E w \in 1..Len(workers) :
          workers[w] = "exited" /\ tickOp.op = "tick" /\ tickOp.worker = w

\* C18: after any number of ticks the activity log holds at most the cap of
\* records, the most recently appended ones, in memory and in the document
C18_ActivityLogCapped ==
    /\ Len(activities) <= ActivityCap
    /\ activities = LastK(activities, ActivityCap)
    /\ Len(saved) <= ActivityCap
    /\ saved = LastK(activities, ActivityCap)

\* the drained events whose type is in the reaction table
RECURSIVE MappedCount(_)
MappedCount(events) ==
    IF events = <<>> THEN 0
    ELSE (IF Head(events).type \in ReactionTypes THEN 1 ELSE 0)
         + MappedCount(Tail(events))

\* the calls of the registered handler in a run
RECURSIVE HandlerCalls(_)
HandlerCalls(ext) ==
    IF ext = <<>> THEN 0
    ELSE (IF Head(ext).kind = "handler" THEN 1 ELSE 0) + HandlerCalls(Tail(ext))

\* C19: in a run of _do_heartbeat every drained event is reacted to: for an
\* event of a type in the reaction table the handler registered under
\* "message_user" is called, for another type no handler is called, and in
\* both cases the reaction loop goes on to the remaining events and the run
\* to its later steps
C19_DrainedEventsReacted ==
    [][ ticks' = ticks + 1 =>
          /\ tickOp'.reacted = Len(tickOp'.drained)
          /\ tickOp'.raised # "reaction"
          /\ "message_user" \in action_handlers =>
                HandlerCalls(tickOp'.ext) >= MappedCount(tickOp'.drained)
          /\ MappedCount(tickOp'.drained) = 0 /\ tickOp'.impulse.type # "message_user"
                => HandlerCalls(tickOp'.ext) = 0 ]_vars

\* C20: an error raised in the memory consolidation or in the social
\* engagement of a tick is caught there, the steps after it and the activity
\* record of the tick still run (unless the energy restoration itself
\* raises); an error that escapes a tick is recorded by the loop as an
\* "error" activity and the worker stays in the loop, asleep until the next
\* test of the flag
C20_ErrorsContained ==
    tickOp.op = "tick" =>
        /\ "reflection" \in tickOp.caught =>
               Len(tickOp.steps) >= 2 /\ tickOp.steps[2] = "social"
        /\ tickOp.caught # {} =>
               IF tickOp.raised = None
               THEN /\ tickOp.steps = <<"reflection", "social", "restore", "record">>
                    /\ activities[Len(activities)].kind = "tick"
               ELSE tickOp.raised = "restore"
        /\ tickOp.raised # None =>
               /\ activities # <<>>
               /\ activities[Len(activities)].kind = "error"
               /\ saved = SavedLog(activities)
        /\ workers[tickOp.worker] \in {"sleep", "check", "tick"}

\* a tick that an error escaped was recorded as "error", and the tick after
\* it ran, caught an error in both housekeeping steps and was recorded
C20_Witness ==
    /\ Len(activities) = 2
    /\ activities[1].kind = "error"
    /\ tickOp.op = "tick"
    /\ tickOp.caught = {"reflection", "social"}
    /\ tickOp.raised = None
    /\ activities[2].kind = "tick"

\* the steps from which an error leaves a run before its impulse evaluation
BeforeImpulses == {"subagents", "drain", "reaction", "deep_work"}

\* C21: in a run where the deep-work gate holds and a task is obtained, either
\* the work was done (boredom, lowered by 1.0, is at its floor, and the run
\* made no impulse evaluation, no impulse dispatch and no housekeeping), or
\* the failure of the executor was caught and the run went on to its impulse
\* evaluation
C21_DeepWorkPreempts ==
    (Ran /\ tickOp.task) =>
        \/ /\ tickOp.raised = None
           /\ drives["boredom"] = 0
           /\ tickOp.checked = NoImpulse /\ tickOp.impulse = NoImpulse
           /\ tickOp.steps = <<>>
        \/ tickOp.raised \notin BeforeImpulses

\* C22: across the ticks of one scheduler start() is called on each event
\* producer at most once, also when an earlier start-up sequence ended early
C22_ProducersStartedOnce ==
    \A p \in Producers : agent_starts[p] <= 1

\* the drive whose threshold triggers an impulse (impulse.py:101-114)
TriggeringDrive(i) ==
    IF i.reason \in {"boredom", "curiosity"} THEN "boredom" ELSE "social_need"

\* C24: whenever check_impulses returns an impulse in a run (of any of its
\* types; a handler is registered and nothing raised), the run performs an
\* action for it and lowers the drive that triggered it; the spontaneous
\* impulse is made only in runs where check_impulses returned none
C24_ImpulseDispatched ==
    [][ (ticks' = ticks + 1 /\ tickOp'.raised = None) =>
          /\ (tickOp'.checked # NoImpulse /\ "message_user" \in action_handlers) =>
                /\ tickOp'.ext # <<>>
                /\ drives'[TriggeringDrive(tickOp'.checked)]
                      < drives[TriggeringDrive(tickOp'.checked)]
          /\ tickOp'.impulse = Spontaneous => tickOp'.checked = NoImpulse ]_vars

(***************************************************************************)
(* Specifications                                                          *)
(***************************************************************************)
Init == InitBus /\ InitConc /\ InitDrive /\ InitTracker /\ InitBeat

SpecBus == Init /\ [][NextBus]_vars

SpecBusConc == Init /\ [][NextBusConc]_vars

SpecSub == Init /\ [][NextSub]_vars

SpecConcSub == Init /\ [][NextConcSub]_vars

SpecDrive == Init /\ [][NextDrive]_vars

InitImpulse == InitBus /\ InitConc /\ InitLoaded /\ InitTracker /\ InitBeat

SpecImpulse == InitImpulse /\ [][NextImpulse]_vars

InitTick == InitBus /\ InitConc /\ InitTickDrives /\ InitTracker /\ InitBeat

SpecTick == InitTick /\ [][NextTick]_vars

SpecWorker == Init /\ [][NextWorker]_vars

SpecPlan == Init /\ [][NextPlan]_vars

SpecLoop == Init /\ [][NextLoop]_vars

====
